---- MODULE Spec2Model ----
(***************************************************************************)
(* Model of the ncfs policy update service (cmd/policy-update-service.go): *)
(* the authentication gate (authMiddleware over the go-guardian            *)
(* authenticator with its shared FIFO cache), the token handler            *)
(* (createToken) and the policy handler (updatePolicy: JSON decoding,      *)
(* validation, serialisation and the two store calls).                     *)
(***************************************************************************)
EXTENDS Integers, Sequences, FiniteSets, TLC

VARIABLES
    hin,        \* updatePolicy in isolation: the request handed to the handler
    hout,       \* updatePolicy in isolation: what the handler did with it
    configMap,  \* the external store: the policy data key of the config map
    now,        \* the wall clock, in minutes
    minted,     \* the tokens createToken has issued
    cache,      \* the FIFO cache shared by the two strategies
    last,       \* the server, one request at a time: the last request and its answer
    conns       \* the server, concurrent requests: the request of each connection

vars == <<hin, hout, configMap, now, minted, cache, last, conns>>

(***************************************************************************)
(* Bounds of the model and constants of the program.                       *)
(***************************************************************************)
MaxMembers == 2
MaxTime == 20
TickMinutes == 5
MaxTokens == 1

TokenLifeMinutes == 5
CacheTTLMinutes == 10

MaxBodyBytes == 1048576

StatusOK == 200
StatusBadRequest == 400
StatusUnauthorized == 401
StatusRequestEntityTooLarge == 413
StatusUnsupportedMediaType == 415
StatusInternalServerError == 500

(***************************************************************************)
(* net/http response writer: the first WriteHeader fixes the status, every *)
(* later one is superfluous; every write appends to the body.              *)
(***************************************************************************)
NewResponseWriter == [status |-> 0, headerCalls |-> 0, body |-> <<>>]

Msg(text, field) == [text |-> text, field |-> field]

\* http.Error(w, msg, code): WriteHeader(code) then Fprintln(w, msg)
HttpError(w, msg, code) ==
    [status      |-> IF w.status = 0 THEN code ELSE w.status,
     headerCalls |-> w.headerCalls + 1,
     body        |-> Append(w.body, msg)]

\* w.Write(b): an implicit WriteHeader(200) when no status was written yet
HttpWrite(w, msg) ==
    [status      |-> IF w.status = 0 THEN StatusOK ELSE w.status,
     headerCalls |-> w.headerCalls,
     body        |-> Append(w.body, msg)]

(***************************************************************************)
(* type Policy struct: two *int fields.  A pointer is <<>> (nil) or <<n>>. *)
(***************************************************************************)
NilPtr == <<>>

Policy == [UnprocessableFileTypeAction |-> NilPtr, GlasswallBlockedFilesAction |-> NilPtr]

(***************************************************************************)
(* JSON text.  A body is the shape of its first JSON value, the members of *)
(* that value when it is an object, the offset at which the value ends (or *)
(* at which the syntax error sits) and the total size of the body.         *)
(***************************************************************************)
JInt(n) == [t |-> "int", n |-> n]
JStr == [t |-> "string", n |-> 0]
JNull == [t |-> "null", n |-> 0]

Member(k, v) == [key |-> k, val |-> v]

\* encoding/json matches an object key to a struct field by name, then by
\* case-insensitive name; "" is no field
FieldOf(key) ==
    CASE key \in {"UnprocessableFileTypeAction", "unprocessableFileTypeAction"}
           -> "UnprocessableFileTypeAction"
      [] key \in {"GlasswallBlockedFilesAction", "glasswallBlockedFilesAction"}
           -> "GlasswallBlockedFilesAction"
      [] OTHER -> ""

NoErr == [kind |-> "nil", field |-> ""]
Err(kind, field) == [kind |-> kind, field |-> field]

\* d.saveError: only the first error of an unmarshal is kept
SaveError(saved, e) == IF saved = NoErr THEN e ELSE saved

\* d.object / d.literalStore for one member of the object, in order
RECURSIVE Unmarshal(_, _, _, _)
Unmarshal(members, i, p, saved) ==
    IF i > Len(members) THEN [err |-> saved, p |-> p]
    ELSE LET m == members[i]
             f == FieldOf(m.key)
         IN  IF f = ""
             THEN \* dec.DisallowUnknownFields()
                  Unmarshal(members, i + 1, p, SaveError(saved, Err("unknownField", m.key)))
             ELSE CASE m.val.t = "int" ->
                         Unmarshal(members, i + 1, [p EXCEPT ![f] = <<m.val.n>>], saved)
                    [] m.val.t = "null" ->
                         Unmarshal(members, i + 1, [p EXCEPT ![f] = NilPtr], saved)
                    [] OTHER ->
                         \* the pointer is allocated before the literal is refused
                         Unmarshal(members, i + 1,
                                   [p EXCEPT ![f] = IF p[f] = NilPtr THEN <<0>> ELSE p[f]],
                                   SaveError(saved, Err("unmarshalType", f)))

\* json.NewDecoder(http.MaxBytesReader(w, r.Body, 1048576)).Decode(&p): the decoder
\* reads until its first value is complete; the reader fails once more than
\* MaxBodyBytes bytes were asked of it
Decode(body) ==
    CASE body.shape = "empty" ->
            [err |-> Err("EOF", ""), p |-> Policy]
      [] body.shape = "syntax" ->
            [err |-> IF body.valueEnd <= MaxBodyBytes THEN Err("syntax", "")
                     ELSE Err("tooLarge", ""),
             p |-> Policy]
      [] body.shape = "truncated" ->
            [err |-> IF body.size <= MaxBodyBytes THEN Err("unexpectedEOF", "")
                     ELSE Err("tooLarge", ""),
             p |-> Policy]
      [] body.valueEnd > MaxBodyBytes ->
            [err |-> Err("tooLarge", ""), p |-> Policy]
      [] body.shape = "null" ->
            [err |-> NoErr, p |-> Policy]
      [] body.shape = "array" ->
            [err |-> Err("unmarshalType", ""), p |-> Policy]
      [] OTHER -> Unmarshal(body.members, 1, Policy, NoErr)

\* err.Error()
ErrorText(e) ==
    CASE e.kind = "syntax" -> Msg("invalid character", "")
      [] e.kind = "unexpectedEOF" -> Msg("unexpected EOF", "")
      [] e.kind = "unmarshalType" -> Msg("json: cannot unmarshal into Go struct field", e.field)
      [] e.kind = "unknownField" -> Msg("json: unknown field", e.field)
      [] e.kind = "EOF" -> Msg("EOF", "")
      [] e.kind = "tooLarge" -> Msg("http: request body too large", "")
      [] OTHER -> Msg("", "")

(***************************************************************************)
(* updatePolicy, lines 353-472.                                            *)
(***************************************************************************)
\* header.ParseValueAndParams(r.Header, "Content-Type"): the media type, lower
\* case, without its parameters
ParseValueAndParams(ct) ==
    CASE ct \in {"application/json", "Application/JSON", "application/json; charset=utf-8"}
           -> "application/json"
      [] ct = "text/plain; charset=utf-8" -> "text/plain"
      [] OTHER -> ct

\* the switch without its case for an unknown field
DecodeErrorReplyNoUnknownCase(w, e) ==
    CASE e.kind = "syntax" ->
            HttpError(w, Msg("Request body contains badly-formed JSON (at position)", ""),
                      StatusBadRequest)
      [] e.kind = "unmarshalType" ->
            HttpError(w, Msg("Request body contains an invalid value for the field", e.field),
                      StatusBadRequest)
      [] OTHER ->
            HttpError(w, Msg("Internal Server Error", ""), StatusInternalServerError)

\* the switch on the decoder's error: the second http.Error of the failure path
DecodeErrorReply(w, e) ==
    CASE e.kind = "syntax" ->
            HttpError(w, Msg("Request body contains badly-formed JSON (at position)", ""),
                      StatusBadRequest)
      [] e.kind = "unexpectedEOF" ->
            HttpError(w, Msg("Request body contains badly-formed JSON", ""), StatusBadRequest)
      [] e.kind = "unmarshalType" ->
            HttpError(w, Msg("Request body contains an invalid value for the field", e.field),
                      StatusBadRequest)
      [] e.kind = "unknownField" ->
            HttpError(w, Msg("Request body contains unknown field", e.field), StatusBadRequest)
      [] e.kind = "EOF" ->
            HttpError(w, Msg("Request body must not be empty", ""), StatusBadRequest)
      [] e.kind = "tooLarge" ->
            HttpError(w, Msg("Request body must not be larger than 1MB", ""),
                      StatusRequestEntityTooLarge)
      [] OTHER ->
            HttpError(w, Msg("Internal Server Error", ""), StatusInternalServerError)

\* lines 385-417: on a decoding error the handler first writes err.Error() with
\* status 400 and then the message the switch selects
DecodeFailure(w, e) == DecodeErrorReply(HttpError(w, ErrorText(e), StatusBadRequest), e)

\* the range check with < 0 for <= 0
OutOfRangeOffByOne(n) == n < 0 \/ n >= 5

\* *p.X <= 0 || *p.X >= 5
OutOfRange(n) == n <= 0 \/ n >= 5

Rejected(w) == [w |-> w, p |-> Policy, ok |-> FALSE]

\* lines 363-441: everything before the policy is serialised
updatePolicyValidate(r) ==
    LET w == NewResponseWriter
        d == Decode(r.body)
        p == d.p
    IN  CASE r.method = "OPTIONS" -> Rejected(w)
          [] r.contentType # "" /\ ParseValueAndParams(r.contentType) # "application/json" ->
                Rejected(HttpError(w, Msg("Content-Type header is not application/json", ""),
                                   StatusUnsupportedMediaType))
          [] d.err # NoErr -> Rejected(DecodeFailure(w, d.err))
          [] p.UnprocessableFileTypeAction = NilPtr ->
                Rejected(HttpError(w, Msg("is required.", "UnprocessableFileTypeAction"),
                                   StatusBadRequest))
          [] OutOfRange(p.UnprocessableFileTypeAction[1]) ->
                Rejected(HttpError(w, Msg("must be between 1-4 inclusive.",
                                          "UnprocessableFileTypeAction"), StatusBadRequest))
          [] p.GlasswallBlockedFilesAction = NilPtr ->
                Rejected(HttpError(w, Msg("is required.", "GlasswallBlockedFilesAction"),
                                   StatusBadRequest))
          [] OutOfRange(p.GlasswallBlockedFilesAction[1]) ->
                Rejected(HttpError(w, Msg("must be between 1-4 inclusive.",
                                          "GlasswallBlockedFilesAction"), StatusBadRequest))
          [] OTHER -> [w |-> w, p |-> p, ok |-> TRUE]

\* json.NewEncoder(&b).Encode(p): the struct's fields in declaration order, a
\* nil pointer as null
EncodePtr(ptr) == IF ptr = NilPtr THEN JNull ELSE JInt(ptr[1])

Encode(p) ==
    <<Member("UnprocessableFileTypeAction", EncodePtr(p.UnprocessableFileTypeAction)),
      Member("GlasswallBlockedFilesAction", EncodePtr(p.GlasswallBlockedFilesAction))>>

\* the arguments with the serialised policy appended to what is stored
PolicyArgsAppended(str) ==
    [Policy |-> configMap.policy \o str, Namespace |-> "namespace",
     ConfigMapName |-> "configmapName"]

\* policy.PolicyArgs{Policy: str, Namespace: namespace, ConfigMapName: configmapName}
PolicyArgs(str) == [Policy |-> str, Namespace |-> "namespace", ConfigMapName |-> "configmapName"]

\* args.UpdatePolicy(): the config map is read, its policy key is overwritten
\* with args.Policy and the map is written back
StoreUpdate(cm, args) == [cm EXCEPT !.policy = args.Policy]

\* one call on the store client and what it returned ("ok" for a nil error)
Call(op, args, ret) == [op |-> op, args |-> args, ret |-> ret]

\* lines 454-460: args.GetClient() and its failure path
getClientCall(w, args, gc) ==
    IF gc # "ok"
    THEN [w |-> HttpError(w, Msg("Something went wrong getting K8 Client.", ""),
                          StatusInternalServerError),
          calls |-> <<Call("GetClient", args, gc)>>, ok |-> FALSE]
    ELSE [w |-> w, calls |-> <<Call("GetClient", args, gc)>>, ok |-> TRUE]

\* lines 462-471: args.UpdatePolicy(), its failure path and the confirmation
updatePolicyCall(w, args, up, cm) ==
    IF up # "ok"
    THEN [w |-> HttpError(w, Msg("Something went wrong when updating the config map.", ""),
                          StatusInternalServerError),
          calls |-> <<Call("UpdatePolicy", args, up)>>, cm |-> cm]
    ELSE [w |-> HttpWrite(w, Msg("Successfully updated config map.", "")),
          calls |-> <<Call("UpdatePolicy", args, up)>>, cm |-> StoreUpdate(cm, args)]

\* lines 443-472 without the return of line 459: a failure of GetClient is
\* answered and the handler goes on to UpdatePolicy
updatePolicyCommitNoReturn(w, p, gc, up, cm) ==
    LET args == PolicyArgs(Encode(p))
        c == getClientCall(w, args, gc)
        u == updatePolicyCall(c.w, args, up, cm)
    IN  [w |-> u.w, calls |-> c.calls \o u.calls, cm |-> u.cm]

\* lines 443-472: serialise, GetClient, UpdatePolicy, answer.  gc and up are
\* the outcomes of the two store calls.
updatePolicyCommit(w, p, gc, up, cm) ==
    LET args == PolicyArgs(Encode(p))
        c == getClientCall(w, args, gc)
        u == updatePolicyCall(c.w, args, up, cm)
    IN  IF ~c.ok THEN [w |-> c.w, calls |-> c.calls, cm |-> cm]
        ELSE [w |-> u.w, calls |-> c.calls \o u.calls, cm |-> u.cm]

\* the whole handler
updatePolicy(r, gc, up, cm) ==
    LET v == updatePolicyValidate(r)
    IN  IF v.ok THEN updatePolicyCommit(v.w, v.p, gc, up, cm)
        ELSE [w |-> v.w, calls |-> <<>>, cm |-> cm]

(***************************************************************************)
(* The inputs of the handler.                                              *)
(***************************************************************************)
Keys == {"unprocessableFileTypeAction", "glasswallBlockedFilesAction",
         "UnprocessableFileTypeAction", "foo"}

Values == {JInt(0), JInt(1), JInt(4), JInt(5), JStr, JNull}

Members == {Member(k, v) : k \in Keys, v \in Values}

SeqsUpTo(S, n) == UNION {[1..k -> S] : k \in 0..n}

\* <<offset of the end of the first value, size of the body>>
Sizes == {<<64, 64>>, <<64, MaxBodyBytes + 1>>, <<MaxBodyBytes, MaxBodyBytes>>,
          <<MaxBodyBytes + 1, MaxBodyBytes + 1>>}

Body(shape, members, sz) ==
    [shape |-> shape, members |-> members, valueEnd |-> sz[1], size |-> sz[2]]

ObjectBodies == {Body("object", ms, sz) : ms \in SeqsUpTo(Members, MaxMembers), sz \in Sizes}

OtherBodies ==
    {Body("empty", <<>>, <<0, 0>>)}
    \cup {Body(sh, <<>>, sz) : sh \in {"syntax", "truncated", "null", "array"}, sz \in Sizes}

ContentTypes == {"", "application/json", "application/json; charset=utf-8", "text/plain"}

Request(method, ct, body) == [method |-> method, contentType |-> ct, body |-> body]

HandlerRequests ==
    {Request("PUT", ct, b) : ct \in ContentTypes, b \in ObjectBodies \cup OtherBodies}
    \cup {Request("OPTIONS", "", Body("empty", <<>>, <<0, 0>>))}

Outcomes == {"ok", "err"}

NoDoc == <<>>

EmptyConfigMap == [policy |-> NoDoc, other |-> "data"]

Idle == [state |-> "idle"]

Conns == {"c1", "c2"}

NoArgs == [Policy |-> NoDoc, Namespace |-> "", ConfigMapName |-> ""]

\* a connection with no request in progress
Closed ==
    [pc |-> "closed", method |-> "", handler |-> "", authed |-> FALSE, w |-> 0,
     args |-> NoArgs, calls |-> <<>>]

NoConns == [c \in Conns |-> Closed]

(***************************************************************************)
(* updatePolicy in isolation: one request handed to the handler.           *)
(***************************************************************************)
HandlerInit ==
    /\ hin \in HandlerRequests
    /\ hout = Idle
    /\ configMap = EmptyConfigMap
    /\ now = 0
    /\ minted = {}
    /\ cache = {}
    /\ last = Idle
    /\ conns = NoConns

HandlerRun ==
    /\ hout = Idle
    /\ \E gc \in Outcomes, up \in Outcomes :
          LET res == updatePolicy(hin, gc, up, configMap)
          IN  /\ hout' = [state |-> "done", w |-> res.w, calls |-> res.calls]
              /\ configMap' = res.cm
    /\ UNCHANGED <<hin, now, minted, cache, last, conns>>

HandlerNext == HandlerRun

SpecHandler == HandlerInit /\ [][HandlerNext]_vars

(***************************************************************************)
(* Claims about updatePolicy in isolation (SpecHandler).                   *)
(***************************************************************************)
HDone == hout.state = "done"

AcceptableContentType(r) ==
    r.contentType = "" \/ ParseValueAndParams(r.contentType) = "application/json"

NothingStored == hout.calls = <<>> /\ configMap = EmptyConfigMap

WrongType(m) == FieldOf(m.key) # "" /\ m.val.t \notin {"int", "null"}
Unknown(m) == FieldOf(m.key) = ""

\* the value the decoder leaves in field f: that of the last member naming it
RECURSIVE LastVal(_, _, _)
LastVal(members, f, i) ==
    IF i = 0 THEN JNull
    ELSE IF FieldOf(members[i].key) = f THEN members[i].val
    ELSE LastVal(members, f, i - 1)

FieldVal(r, f) == LastVal(r.body.members, f, Len(r.body.members))

\* a body that decodes and holds both policy fields, every member a policy
\* field with an integer value
HoldsBothAsIntegers(r) ==
    /\ r.method = "PUT"
    /\ AcceptableContentType(r)
    /\ r.body.shape = "object"
    /\ r.body.valueEnd <= MaxBodyBytes
    /\ \A i \in 1..Len(r.body.members) :
          FieldOf(r.body.members[i].key) # "" /\ r.body.members[i].val.t = "int"
    /\ \A f \in {"UnprocessableFileTypeAction", "GlasswallBlockedFilesAction"} :
          \E i \in 1..Len(r.body.members) : FieldOf(r.body.members[i].key) = f

InRange(n) == n \in 1..4

\* C5 (as claimed): every failing request is answered with exactly one status
\* and exactly one error message; no second status or message is appended.
C5_OneStatusOneMessage ==
    (HDone /\ hout.w.status >= 400) => (hout.w.headerCalls = 1 /\ Len(hout.w.body) = 1)

\* C6 (as claimed): a PUT whose body, a JSON document larger than the 1 MiB
\* cap, is answered 413 and its policy is never sent to the store.
C6_OversizeIs413 ==
    (HDone /\ hin.method = "PUT" /\ AcceptableContentType(hin)
           /\ hin.body.valueEnd > MaxBodyBytes)
        => (hout.w.status = StatusRequestEntityTooLarge /\ NothingStored)

\* C7: with both policy fields given as integers, a value outside 1..4 is
\* answered 400 with one message naming a field whose value is out of range and
\* nothing reaches the store; with both values in 1..4 validation succeeds and
\* the Policy serialised for the store carries exactly the two input values.
C7_RangeValidation ==
    (HDone /\ HoldsBothAsIntegers(hin)) =>
        LET u == FieldVal(hin, "UnprocessableFileTypeAction").n
            g == FieldVal(hin, "GlasswallBlockedFilesAction").n
        IN  IF InRange(u) /\ InRange(g)
            THEN /\ hout.calls # <<>>
                 /\ \A i \in 1..Len(hout.calls) :
                       hout.calls[i].args.Policy =
                          <<Member("UnprocessableFileTypeAction", JInt(u)),
                            Member("GlasswallBlockedFilesAction", JInt(g))>>
            ELSE /\ hout.w.status = StatusBadRequest
                 /\ Len(hout.w.body) = 1
                 /\ hout.w.body[1].field = (IF InRange(u) THEN "GlasswallBlockedFilesAction"
                                            ELSE "UnprocessableFileTypeAction")
                 /\ NothingStored

C7_Witness ==
    /\ HDone /\ HoldsBothAsIntegers(hin)
    /\ FieldVal(hin, "UnprocessableFileTypeAction").n = 1
    /\ FieldVal(hin, "GlasswallBlockedFilesAction").n = 4
    /\ Len(hout.calls) = 2
    /\ configMap.policy # NoDoc

\* a JSON object within the size cap with a member that is no policy field
HasUnknownField(r) ==
    /\ r.method = "PUT"
    /\ AcceptableContentType(r)
    /\ r.body.shape = "object"
    /\ r.body.valueEnd <= MaxBodyBytes
    /\ \E i \in 1..Len(r.body.members) : Unknown(r.body.members[i])

FirstUnknown(r) ==
    LET ms == r.body.members
        i == CHOOSE i \in 1..Len(ms) : Unknown(ms[i]) /\ \A j \in 1..(i - 1) : ~Unknown(ms[j])
    IN  ms[i].key

\* C8 (as claimed): every body with an unknown field, whatever else it holds,
\* is answered 400 with a message naming the unknown field, nothing stored.
C8_UnknownFieldAlwaysNamed ==
    (HDone /\ HasUnknownField(hin)) =>
        /\ hout.w.status = StatusBadRequest
        /\ \E i \in 1..Len(hout.w.body) : hout.w.body[i].field = FirstUnknown(hin)
        /\ NothingStored

\* the member the decoder reports: the first one that is unknown or wrongly typed
FirstOffending(r) ==
    LET ms == r.body.members
        bad(m) == Unknown(m) \/ WrongType(m)
        i == CHOOSE i \in 1..Len(ms) : bad(ms[i]) /\ \A j \in 1..(i - 1) : ~bad(ms[j])
    IN  ms[i]

\* C8 (amended): a body whose JSON object ends within the 1 MiB cap and holds
\* an unknown field is answered 400 and nothing is stored; every message of the
\* answer names the first unknown field, unless a wrongly typed value of a
\* policy field precedes it, and then they name that policy field.
C8_FirstOffendingFieldNamed ==
    (HDone /\ HasUnknownField(hin)) =>
        LET m == FirstOffending(hin)
            named == IF Unknown(m) THEN m.key ELSE FieldOf(m.key)
        IN  /\ hout.w.status = StatusBadRequest
            /\ hout.w.body # <<>>
            /\ \A i \in 1..Len(hout.w.body) : hout.w.body[i].field = named
            /\ Unknown(m) => named = FirstUnknown(hin)
            /\ NothingStored

\* an out-of-range policy value before the unknown field, and the unknown
\* field is the one named
C8_Witness ==
    /\ HDone /\ HasUnknownField(hin)
    /\ Len(hin.body.members) = 2
    /\ hin.body.members[1] = Member("unprocessableFileTypeAction", JInt(5))
    /\ hin.body.members[2].key = "foo"
    /\ hout.w.status = StatusBadRequest
    /\ hout.w.body[Len(hout.w.body)].field = "foo"

SuccessWritten(w) ==
    \E i \in 1..Len(w.body) : w.body[i].text = "Successfully updated config map."

Failed(calls, op) == \E i \in 1..Len(calls) : calls[i].op = op /\ calls[i].ret # "ok"

Attempts(calls, op) == Cardinality({i \in 1..Len(calls) : calls[i].op = op})

\* C11: a failure of GetClient is answered 500 and UpdatePolicy is not called;
\* a failure of UpdatePolicy is answered 500; in both cases the confirmation is
\* not written and the store is left as it was; neither call is made twice in
\* a request; the confirmation is written, with status 200, only after
\* GetClient and then UpdatePolicy returned without error.
C11_StoreFailuresAre500 ==
    HDone =>
        /\ Attempts(hout.calls, "GetClient") <= 1
        /\ Attempts(hout.calls, "UpdatePolicy") <= 1
        /\ Failed(hout.calls, "GetClient") =>
              /\ hout.w.status = StatusInternalServerError
              /\ Attempts(hout.calls, "UpdatePolicy") = 0
              /\ ~SuccessWritten(hout.w)
              /\ configMap = EmptyConfigMap
        /\ Failed(hout.calls, "UpdatePolicy") =>
              /\ hout.w.status = StatusInternalServerError
              /\ ~SuccessWritten(hout.w)
              /\ configMap = EmptyConfigMap
        /\ SuccessWritten(hout.w) =>
              /\ hout.w.status = StatusOK
              /\ Len(hout.calls) = 2
              /\ hout.calls[1].op = "GetClient" /\ hout.calls[1].ret = "ok"
              /\ hout.calls[2].op = "UpdatePolicy" /\ hout.calls[2].ret = "ok"

\* a valid request whose GetClient failed: answered 500 after that one call
C11_Witness ==
    /\ HDone
    /\ Len(hout.calls) = 1
    /\ Failed(hout.calls, "GetClient")
    /\ hout.w.status = StatusInternalServerError

(***************************************************************************)
(* Credentials and tokens.                                                 *)
(***************************************************************************)
username == "operator"
password == "operator-password"

NoClaim == <<>>

StringClaim(v) == [t |-> "string", v |-> v]
NumberClaim == [t |-> "number", v |-> ""]
AbsentClaim == [t |-> "absent", v |-> ""]

\* a compact JWT: its alg header, whether its signature is the HMAC of its
\* first two segments under "secret", its sub claim and its exp claim
JWT(alg, signed, sub, exp) ==
    [kind |-> "jwt", text |-> "", alg |-> alg, signed |-> signed, sub |-> sub, exp |-> exp]

\* a string that is no JWT
RawToken(text) ==
    [kind |-> "raw", text |-> text, alg |-> "", signed |-> FALSE, sub |-> AbsentClaim,
     exp |-> NoClaim]

\* auth.NewDefaultUser(name, id, nil, nil); ext is the extension the basic
\* strategy adds before it caches the user
NewDefaultUser(name, id) == [UserName |-> name, ID |-> id, ext |-> ""]

NoInfo == [UserName |-> "", ID |-> "", ext |-> ""]

AuthOK(info) == [kind |-> "ok", info |-> info, text |-> "", reasons |-> {}]
AuthErr(text) == [kind |-> "err", info |-> NoInfo, text |-> text, reasons |-> {text}]
AuthPanic ==
    [kind |-> "panic", info |-> NoInfo,
     text |-> "interface conversion: interface {} is not string", reasons |-> {}]

\* createToken, lines 488-493: jwt.NewWithClaims(HS256, {iss, sub: username,
\* aud, exp: now + 5 minutes})
NewWithClaims(t) == JWT("HS256", TRUE, StringClaim(username), <<t + TokenLifeMinutes>>)

\* token.Method.(*jwt.SigningMethodHMAC)
IsHMAC(alg) == alg \in {"HS256", "HS384", "HS512"}

\* jwt.Parse with the key function of lines 509-515: the error text, "" for none
jwtParse(tok, t) ==
    CASE tok.kind # "jwt" -> "token contains an invalid number of segments"
      [] ~IsHMAC(tok.alg) -> "Unexpected signing method"
      [] ~tok.signed -> "signature is invalid"
      [] tok.exp # NoClaim /\ t > tok.exp[1] -> "Token is expired"
      [] OTHER -> ""

\* verifyToken, lines 508-529
verifyToken(tok, t) ==
    LET e == jwtParse(tok, t)
    IN  IF e # "" THEN AuthErr(e)
        ELSE IF tok.sub.t # "string" THEN AuthPanic      \* claims["sub"].(string)
        ELSE AuthOK(NewDefaultUser(tok.sub.v, ""))

\* validateUser, lines 499-506
validateUser(usr, pass) ==
    IF usr = username /\ pass = password
    THEN AuthOK(NewDefaultUser(usr, "1"))
    ELSE AuthErr("Invalid credentials")

(***************************************************************************)
(* setupGoGuardian, lines 557-566: one FIFO cache with a TTL of 10 minutes *)
(* shared by the basic and the bearer strategy.  The basic strategy keys   *)
(* it by the user name, the bearer strategy by the token string.           *)
(***************************************************************************)
CacheEntry(key, info, t) == [key |-> key, info |-> info, expires |-> t + CacheTTLMinutes]

Expired(e, t) == t > e.expires

\* cache.Load: the live entries of the key (none or one)
CacheLoad(c, key, t) == {e \in c : e.key = key /\ ~Expired(e, t)}

\* cache.Store
CacheStore(c, key, info, t) == {e \in c : e.key # key} \cup {CacheEntry(key, info, t)}

NoCred == [scheme |-> "none", user |-> "", pass |-> "", token |-> RawToken("")]
OtherScheme == [scheme |-> "Digest", user |-> "", pass |-> "", token |-> RawToken("")]
Basic(u, pw) == [scheme |-> "Basic", user |-> u, pass |-> pw, token |-> RawToken("")]
Bearer(tok) == [scheme |-> "Bearer", user |-> "", pass |-> "", token |-> tok]

\* basic.New(validateUser, cache).Authenticate
basicStrategy(cred, c, t) ==
    IF cred.scheme # "Basic"
    THEN [res |-> AuthErr("basic: Request missing BasicAuth"), cache |-> c]
    ELSE LET key == RawToken(cred.user)
             hit == CacheLoad(c, key, t)
             fresh == validateUser(cred.user, cred.pass)
             hashed == [fresh.info EXCEPT !.ext = cred.pass]
         IN  IF hit # {} /\ (CHOOSE e \in hit : TRUE).info.ext # ""
             THEN IF (CHOOSE e \in hit : TRUE).info.ext = cred.pass
                  THEN [res |-> AuthOK((CHOOSE e \in hit : TRUE).info), cache |-> c]
                  ELSE [res |-> AuthErr("basic: Invalid user credentials"), cache |-> c]
             ELSE IF fresh.kind = "ok"
                  THEN [res |-> AuthOK(hashed), cache |-> CacheStore(c, key, hashed, t)]
                  ELSE [res |-> fresh, cache |-> c]

\* bearer.New(verifyToken, cache).Authenticate: a cached token is not verified again
bearerStrategy(cred, c, t) ==
    IF cred.scheme # "Bearer"
    THEN [res |-> AuthErr("bearer: Invalid bearer token"), cache |-> c]
    ELSE LET hit == CacheLoad(c, cred.token, t)
             fresh == verifyToken(cred.token, t)
         IN  IF hit # {}
             THEN [res |-> AuthOK((CHOOSE e \in hit : TRUE).info), cache |-> c]
             ELSE IF fresh.kind = "ok"
                  THEN [res |-> fresh, cache |-> CacheStore(c, cred.token, fresh.info, t)]
                  ELSE [res |-> fresh, cache |-> c]

\* authenticator.Authenticate(r): every enabled strategy is tried, the first
\* success wins; otherwise the error lists the errors of all strategies
Authenticate(cred, c, t) ==
    LET b == basicStrategy(cred, c, t)
        k == bearerStrategy(cred, c, t)
    IN  CASE b.res.kind = "ok" -> b
          [] k.res.kind = "ok" -> k
          [] k.res.kind = "panic" -> k
          [] OTHER ->
               [res |-> [kind |-> "err", info |-> NoInfo,
                         text |-> "authenticator: No authentication strategy matched",
                         reasons |-> b.res.reasons \cup k.res.reasons],
                cache |-> c]

\* err.Error() of the authenticator's error
AuthErrorText(res) == [text |-> res.text, field |-> "", reasons |-> res.reasons]

\* authMiddleware without the return of line 549: the next handler runs after
\* the 401 was written
authMiddlewareNoReturn(r, c, t) ==
    LET w == NewResponseWriter
        a == Authenticate(r.cred, c, t)
    IN  CASE r.method = "OPTIONS" ->
               [w |-> w, next |-> FALSE, panic |-> FALSE, res |-> AuthErr(""), cache |-> c]
          [] a.res.kind = "panic" ->
               [w |-> w, next |-> FALSE, panic |-> TRUE, res |-> a.res, cache |-> a.cache]
          [] a.res.kind = "err" ->
               [w |-> HttpError(w, AuthErrorText(a.res), StatusUnauthorized),
                next |-> TRUE, panic |-> FALSE, res |-> a.res, cache |-> a.cache]
          [] OTHER ->
               [w |-> w, next |-> TRUE, panic |-> FALSE, res |-> a.res, cache |-> a.cache]

\* authMiddleware, lines 531-555
authMiddleware(r, c, t) ==
    LET w == NewResponseWriter
        a == Authenticate(r.cred, c, t)
    IN  CASE r.method = "OPTIONS" ->
               [w |-> w, next |-> FALSE, panic |-> FALSE, res |-> AuthErr(""), cache |-> c]
          [] a.res.kind = "panic" ->
               [w |-> w, next |-> FALSE, panic |-> TRUE, res |-> a.res, cache |-> a.cache]
          [] a.res.kind = "err" ->
               [w |-> HttpError(w, AuthErrorText(a.res), StatusUnauthorized),
                next |-> FALSE, panic |-> FALSE, res |-> a.res, cache |-> a.cache]
          [] OTHER ->
               [w |-> w, next |-> TRUE, panic |-> FALSE, res |-> a.res, cache |-> a.cache]

(***************************************************************************)
(* createToken, lines 474-497.  sign is the outcome of token.SignedString. *)
(***************************************************************************)
TokenBody(toks) == [text |-> "", field |-> "", token |-> toks]

createToken(r, t, sign) ==
    IF r.method = "OPTIONS" THEN [w |-> NewResponseWriter, issued |-> {}]
    ELSE LET token == NewWithClaims(t)
         IN  IF sign = "ok"
             THEN [w |-> HttpWrite(NewResponseWriter, TokenBody(<<token>>)),
                   issued |-> {token}]
             ELSE \* jwtToken, _ := token.SignedString(...): "" is written
                  [w |-> HttpWrite(NewResponseWriter, TokenBody(<<>>)), issued |-> {}]

(***************************************************************************)
(* main, lines 568-587: negroni (Recovery, Logger, authMiddleware) in      *)
(* front of the mux router with its two routes.                            *)
(***************************************************************************)
TokenPath == "/api/v1/auth/token"
PolicyPath == "/api/v1/policy"

StatusMethodNotAllowed == 405

Route(method, path) ==
    CASE path = TokenPath /\ method \in {"GET", "OPTIONS"} -> "createToken"
      [] path = PolicyPath /\ method \in {"PUT", "OPTIONS"} -> "updatePolicy"
      [] OTHER -> "methodNotAllowed"

\* a handler that returns without writing answers 200 with an empty body
Finish(w) == IF w.status = 0 THEN [w EXCEPT !.status = StatusOK] ELSE w

\* negroni.NewRecovery(): a panic below it is answered 500
Recovery == HttpError(NewResponseWriter, Msg("PANIC", ""), StatusInternalServerError)

Answer(handler, res, w, calls, c, cm, issued) ==
    [handler |-> handler, res |-> res, w |-> Finish(w), calls |-> calls, cache |-> c,
     cm |-> cm, issued |-> issued]

\* one request through the whole stack
ServeHTTP(r, c, t, cm, gc, up, sign) ==
    LET g == authMiddleware(r, c, t)
        h == Route(r.method, r.path)
        ct == createToken(r, t, sign)
        u == updatePolicy(r, gc, up, cm)
    IN  CASE g.panic -> Answer("none", g.res, Recovery, <<>>, g.cache, cm, {})
          [] ~g.next -> Answer("none", g.res, g.w, <<>>, g.cache, cm, {})
          [] h = "createToken" -> Answer(h, g.res, ct.w, <<>>, g.cache, cm, ct.issued)
          [] h = "updatePolicy" -> Answer(h, g.res, u.w, u.calls, g.cache, u.cm, {})
          [] OTHER ->
               Answer(h, g.res, HttpError(NewResponseWriter, Msg("Method Not Allowed", ""),
                                          StatusMethodNotAllowed), <<>>, g.cache, cm, {})

(***************************************************************************)
(* The requests of the server model.                                       *)
(***************************************************************************)
ForgedTokens ==
    {RawToken("garbage"), RawToken(username),
     JWT("none", FALSE, StringClaim(username), NoClaim),
     JWT("RS256", FALSE, StringClaim(username), NoClaim),
     JWT("HS256", FALSE, StringClaim(username), NoClaim),
     JWT("HS256", TRUE, AbsentClaim, NoClaim),
     JWT("HS256", TRUE, NumberClaim, NoClaim)}

Credentials(issuedTokens) ==
    {NoCred, OtherScheme}
    \cup {Basic(u, pw) : u \in {username, "mallory"}, pw \in {password, "guess"}}
    \cup {Bearer(tok) : tok \in issuedTokens \cup ForgedTokens}

PolicyBody(u, g) ==
    Body("object", <<Member("unprocessableFileTypeAction", JInt(u)),
                     Member("glasswallBlockedFilesAction", JInt(g))>>, <<64, 64>>)

ServerBodies == {PolicyBody(1, 4), PolicyBody(0, 4)}

NoBody == Body("empty", <<>>, <<0, 0>>)

HTTPRequest(method, path, cred, ct, body) ==
    [method |-> method, path |-> path, cred |-> cred, contentType |-> ct, body |-> body]

ServerRequests(issuedTokens) ==
    {HTTPRequest("PUT", PolicyPath, cred, ct, b) :
         cred \in Credentials(issuedTokens), ct \in {"application/json"},
         b \in ServerBodies}
    \cup {HTTPRequest(m, p, cred, "", NoBody) :
         m \in {"GET", "OPTIONS"}, p \in {TokenPath, PolicyPath},
         cred \in Credentials(issuedTokens)}

(***************************************************************************)
(* The server, one request at a time.                                      *)
(***************************************************************************)
Init ==
    /\ hin = Request("OPTIONS", "", NoBody)
    /\ hout = Idle
    /\ configMap = EmptyConfigMap
    /\ now = 0
    /\ minted = {}
    /\ cache = {}
    /\ last = Idle
    /\ conns = NoConns

\* time passes; the cache's collector drops the entries that expired
Tick ==
    /\ last = Idle
    /\ now + TickMinutes <= MaxTime
    /\ now' = now + TickMinutes
    /\ cache' = {e \in cache : ~Expired(e, now + TickMinutes)}
    /\ UNCHANGED <<hin, hout, configMap, minted, last, conns>>

\* the outcomes that the handler a request is routed to can observe
Observable(r, gc, up, sign) ==
    /\ (Route(r.method, r.path) # "updatePolicy" \/ r.method = "OPTIONS")
          => (gc = "ok" /\ up = "ok")
    /\ gc = "err" => up = "ok"
    /\ (Route(r.method, r.path) # "createToken" \/ r.method = "OPTIONS") => sign = "ok"

Serve ==
    /\ last = Idle
    /\ \E r \in ServerRequests(minted), gc \in Outcomes, up \in Outcomes, sign \in Outcomes :
          /\ Observable(r, gc, up, sign)
          /\ \E a \in {ServeHTTP(r, cache, now, configMap, gc, up, sign)} :
                /\ Cardinality(minted \cup a.issued) <= MaxTokens
                /\ last' = [state |-> "done", req |-> r, auth |-> a.res.kind,
                            info |-> a.res.info, handler |-> a.handler, w |-> a.w,
                            calls |-> a.calls, sign |-> sign]
                /\ cache' = a.cache
                /\ configMap' = a.cm
                /\ minted' = minted \cup a.issued
    /\ UNCHANGED <<hin, hout, now, conns>>

\* the answer is delivered to the client
Deliver ==
    /\ last # Idle
    /\ last' = Idle
    /\ UNCHANGED <<hin, hout, configMap, now, minted, cache, conns>>

Next == Tick \/ Serve \/ Deliver

Spec == Init /\ [][Next]_vars

(***************************************************************************)
(* Claims about the gate and the token handler (Spec).                     *)
(***************************************************************************)
Served == last # Idle

\* C2 (as claimed): a token minted by createToken, presented as a Bearer
\* credential, is accepted with the issued subject up to its expiry (5 minutes
\* after it was minted) and refused at every later time, cached or not.
C2_MintedTokenUntilExpiry ==
    (Served /\ last.req.method # "OPTIONS" /\ last.req.cred.scheme = "Bearer"
            /\ last.req.cred.token \in minted) =>
        IF now <= last.req.cred.token.exp[1]
        THEN last.auth = "ok" /\ last.info.UserName = last.req.cred.token.sub.v
        ELSE last.auth = "err" /\ last.w.status = StatusUnauthorized

\* C3 (as claimed): a token is returned only to a request that presented the
\* operator's user name and password via Basic, the policy handler runs only
\* for a request that presented a Bearer token, and the other scheme's valid
\* credential is answered 401.
C3_SchemePerRoute ==
    Served =>
        /\ (last.handler = "createToken" /\ last.req.method = "GET")
              => (last.req.cred.scheme = "Basic" /\ last.req.cred.user = username
                  /\ last.req.cred.pass = password)
        /\ last.handler = "updatePolicy" => last.req.cred.scheme = "Bearer"
        /\ (last.req.method = "PUT" /\ last.req.path = PolicyPath
              /\ last.req.cred.scheme = "Basic") => last.w.status = StatusUnauthorized

\* C4 (as claimed): the body of every 401 is one generic message that carries
\* none of the verifiers' error texts.
C4_GenericUnauthorizedBody ==
    (Served /\ last.w.status = StatusUnauthorized) =>
        /\ Len(last.w.body) = 1
        /\ last.w.body[1].reasons = {}

\* C9 (as claimed): when signing the token fails the request is answered 500
\* and no token body is returned, never 200 with an empty token.
C9_SigningFailureIs500 ==
    (Served /\ last.handler = "createToken" /\ last.req.method = "GET"
            /\ last.sign = "err") =>
        /\ last.w.status = StatusInternalServerError
        /\ \A i \in 1..Len(last.w.body) : "token" \notin DOMAIN last.w.body[i]

\* C12 (as claimed): every request other than OPTIONS leaves the gate either
\* Authenticated (an identity, the routed handler runs) or Rejected (an
\* authentication error, 401, no handler runs), whatever the credential; a
\* well-signed, unexpired token whose sub claim is absent or not a string is
\* no exception, and no request ends in a 500 from an aborted handler.
C12_AuthenticatedOrRejected ==
    (Served /\ last.req.method # "OPTIONS") =>
        \/ /\ last.auth = "ok"
           /\ last.info # NoInfo
           /\ last.handler # "none"
        \/ /\ last.auth = "err"
           /\ last.w.status = StatusUnauthorized
           /\ last.handler = "none"

(***************************************************************************)
(* updatePolicy called twice in sequence with the same request, on a store *)
(* that holds no policy yet or an older one.                               *)
(***************************************************************************)
ActionValues == 0..5

TwiceRequests ==
    {Request("PUT", "application/json", PolicyBody(u, g)) :
         u \in ActionValues, g \in ActionValues}

StaleConfigMap == [policy |-> Encode(Decode(PolicyBody(2, 3)).p), other |-> "data"]

TwiceInit ==
    /\ hin \in TwiceRequests
    /\ hout = Idle
    /\ configMap \in {EmptyConfigMap, StaleConfigMap}
    /\ now = 0
    /\ minted = {}
    /\ cache = {}
    /\ last = Idle
    /\ conns = NoConns

\* the first or the second call of the handler
TwiceRun ==
    /\ hout.state \in {"idle", "again"}
    /\ \E gc \in Outcomes, up \in Outcomes :
          LET res == updatePolicy(hin, gc, up, configMap)
          IN  /\ hout' = [state |-> "done", w |-> res.w, calls |-> res.calls,
                          nth |-> IF hout.state = "idle" THEN 1 ELSE 2]
              /\ configMap' = res.cm
    /\ UNCHANGED <<hin, now, minted, cache, last, conns>>

\* the client submits the same request again
TwiceResubmit ==
    /\ hout.state = "done" /\ hout.nth = 1
    /\ hout' = [state |-> "again", first |-> hout.w.status, stored |-> configMap]
    /\ UNCHANGED <<hin, configMap, now, minted, cache, last, conns>>

TwiceNext == TwiceRun \/ TwiceResubmit

SpecTwice == TwiceInit /\ [][TwiceNext]_vars

ConcCredentials(issuedTokens) ==
    {NoCred, Basic(username, password), Basic(username, "guess")}
    \cup {Bearer(tok) : tok \in issuedTokens
                               \cup {JWT("HS256", FALSE, StringClaim(username), NoClaim),
                                     JWT("HS256", TRUE, AbsentClaim, NoClaim)}}

ConcRequests(issuedTokens) ==
    {HTTPRequest(m, p, cred, "", NoBody) :
         m \in {"GET", "PUT", "OPTIONS"}, p \in {TokenPath, PolicyPath},
         cred \in ConcCredentials(issuedTokens)}

ConcBodies ==
    {PolicyBody(1, 4), PolicyBody(0, 4), PolicyBody(4, 5),
     Body("object", <<Member("unprocessableFileTypeAction", JInt(1))>>, <<64, 64>>),
     Body("object", <<Member("foo", JInt(1))>>, <<64, 64>>),
     Body("object", <<>>, <<MaxBodyBytes + 1, MaxBodyBytes + 1>>)}

Done(conn, w, calls) == [conn EXCEPT !.pc = "done", !.w = Finish(w).status, !.calls = calls]

\* a request arrives on a connection and passes through authMiddleware
ConcAuth(c) ==
    /\ conns[c].pc = "closed"
    /\ \E r \in ConcRequests(minted) :
          LET g == authMiddleware(r, cache, now)
              conn == [Closed EXCEPT !.method = r.method,
                                     !.authed = (g.res.kind = "ok")]
          IN  /\ cache' = g.cache
              /\ conns' = [conns EXCEPT ![c] =
                    CASE g.panic -> Done(conn, Recovery, <<>>)
                      [] ~g.next -> Done(conn, g.w, <<>>)
                      [] OTHER -> [conn EXCEPT !.pc = "routed",
                                               !.handler = Route(r.method, r.path)]]
    /\ UNCHANGED <<hin, hout, configMap, now, minted, last>>

\* next.ServeHTTP: createToken, or what the router answers by itself
ConcCreateToken(c) ==
    /\ conns[c].pc = "routed" /\ conns[c].handler # "updatePolicy"
    /\ \E sign \in Outcomes :
          LET ct == createToken([method |-> conns[c].method], now, sign)
          IN  IF conns[c].handler = "createToken"
              THEN /\ Cardinality(minted \cup ct.issued) <= MaxTokens
                   /\ minted' = minted \cup ct.issued
                   /\ conns' = [conns EXCEPT ![c] = Done(@, ct.w, <<>>)]
              ELSE /\ sign = "ok"
                   /\ minted' = minted
                   /\ conns' = [conns EXCEPT ![c] =
                         Done(@, HttpError(NewResponseWriter, Msg("Method Not Allowed", ""),
                                           StatusMethodNotAllowed), <<>>)]
    /\ UNCHANGED <<hin, hout, configMap, now, cache, last>>

\* next.ServeHTTP: updatePolicy up to its first store call
ConcValidate(c) ==
    /\ conns[c].pc = "routed" /\ conns[c].handler = "updatePolicy"
    /\ \E ct \in {"application/json", "text/plain"}, b \in ConcBodies :
          LET v == updatePolicyValidate(Request(conns[c].method, ct, b))
          IN  conns' = [conns EXCEPT ![c] =
                  IF v.ok THEN [@ EXCEPT !.pc = "getClient",
                                         !.args = PolicyArgs(Encode(v.p))]
                  ELSE Done(@, v.w, <<>>)]
    /\ UNCHANGED <<hin, hout, configMap, now, minted, cache, last>>

\* args.GetClient()
ConcGetClient(c) ==
    /\ conns[c].pc = "getClient"
    /\ \E gc \in Outcomes :
          LET g == getClientCall(NewResponseWriter, conns[c].args, gc)
          IN  conns' = [conns EXCEPT ![c] =
                  IF g.ok THEN [@ EXCEPT !.pc = "update", !.calls = g.calls]
                  ELSE Done(@, g.w, g.calls)]
    /\ UNCHANGED <<hin, hout, configMap, now, minted, cache, last>>

\* args.UpdatePolicy() and the answer
ConcUpdate(c) ==
    /\ conns[c].pc = "update"
    /\ \E up \in Outcomes :
          LET u == updatePolicyCall(NewResponseWriter, conns[c].args, up, configMap)
          IN  /\ conns' = [conns EXCEPT ![c] = Done(@, u.w, @.calls \o u.calls)]
              /\ configMap' = u.cm
    /\ UNCHANGED <<hin, hout, now, minted, cache, last>>

\* the answer is sent and the connection is free for the next request
ConcClose(c) ==
    /\ conns[c].pc = "done"
    /\ conns' = [conns EXCEPT ![c] = Closed]
    /\ UNCHANGED <<hin, hout, configMap, now, minted, cache, last>>

ConcNext ==
    \/ Tick
    \/ \E c \in Conns :
          \/ ConcAuth(c)
          \/ ConcCreateToken(c)
          \/ ConcValidate(c)
          \/ ConcGetClient(c)
          \/ ConcUpdate(c)
          \/ ConcClose(c)

SpecConc == Init /\ [][ConcNext]_vars

(***************************************************************************)
(* Claims about concurrent requests (SpecConc).                            *)
(***************************************************************************)
\* the serialised policy holds both fields, each an integer in 1..4
FullyPopulated(doc) ==
    /\ Len(doc) = 2
    /\ doc[1].key = "UnprocessableFileTypeAction"
    /\ doc[2].key = "GlasswallBlockedFilesAction"
    /\ \A i \in 1..2 : doc[i].val.t = "int" /\ doc[i].val.n \in 1..4

\* C1: in every interleaving, GetClient and then UpdatePolicy are called for a
\* request only after authMiddleware authenticated that request and
\* updatePolicy accepted its body; the policy handed to the store has both
\* fields, each in 1..4; a request answered 401, 400, 413 or 415 and an OPTIONS
\* request never cause a store call.
C1_StoreOnlyAfterAuthAndValidation ==
    \A c \in Conns :
        LET conn == conns[c]
        IN  /\ conn.calls # <<>> =>
                  /\ conn.authed
                  /\ conn.method = "PUT" /\ conn.handler = "updatePolicy"
                  /\ conn.args # NoArgs
                  /\ conn.calls[1].op = "GetClient"
                  /\ Len(conn.calls) <= 2
                  /\ Len(conn.calls) = 2 => conn.calls[2].op = "UpdatePolicy"
                  /\ \A i \in 1..Len(conn.calls) :
                        /\ conn.calls[i].args = conn.args
                        /\ FullyPopulated(conn.calls[i].args.Policy)
            /\ conn.w \in {StatusUnauthorized, StatusBadRequest,
                           StatusRequestEntityTooLarge, StatusUnsupportedMediaType}
                  => conn.calls = <<>>
            /\ conn.method = "OPTIONS" => conn.calls = <<>>
            /\ conn.pc \in {"getClient", "update"} => conn.authed

\* both connections are past validation at once, one of them between its two
\* store calls, while the other request was refused
C1_Witness ==
    /\ conns["c1"].pc = "update" /\ Len(conns["c1"].calls) = 1
    /\ conns["c2"].pc = "done" /\ conns["c2"].w = StatusUnauthorized
    /\ configMap.policy # NoDoc

====
